---- MODULE Spec2Model ----
(***************************************************************************)
(* gowiki (src/wiki.go, the revision of lines 174-328): an HTTP wiki that  *)
(* keeps each page as the file pages/<title>.txt.                          *)
(*                                                                         *)
(* A string is a sequence of one-character strings; a request path is a    *)
(* sequence of tokens in which the route words ("view", "edit", ...) are   *)
(* single tokens:  /view/a_  is  <<"/", "view", "/", "a", "_">>.           *)
(* The pages directory is a function from file names to file contents.     *)
(***************************************************************************)
EXTENDS Naturals, Sequences, FiniteSets, TLC

VARIABLES
    dir,        \* state of ./pages: "ok", "missing", "readonly" (r-x), "searchonly" (--x)
    files,      \* the entries of ./pages: file name -> content
    req,        \* the request served last
    resp,       \* the response written to it
    handler,    \* the function the mux / makeHandler invoked for it
    storeOps,   \* the file-system calls made while serving it
    prev,       \* history: the entries of ./pages before that request
    saved,      \* history: the titles whose save has succeeded so far
    initial,    \* history: the entries of ./pages at start-up
    procs,      \* concurrent saves: client -> position and locals of its goroutine
    written,    \* history: clients in the order of their write(2) calls
    completed   \* history: clients in the order their handlers returned

vars == <<dir, files, req, resp, handler, storeOps, prev, saved, initial,
          procs, written, completed>>

seqVars == <<req, resp, handler, storeOps, prev, saved>>
concVars == <<procs, written, completed>>

-----------------------------------------------------------------------------
(* Bounds and input sets *)

\* the pages directory never holds more than MaxFiles entries
MaxFiles == 3

\* titles that appear in request paths and in the title field of the /new form
PathTitles == { <<>>, <<"a">>, <<"a", "_">>, <<"-">>, <<"a", " ">>, <<"a", ".">> }
FormTitles == { <<"a">>, <<"a", " ">>, <<"a", ".">> }

\* page bodies
Bodies == { <<>>, <<"x">>, <<"y", "y">> }

\* the goroutines of the concurrent specification
Clients == {1, 2}

-----------------------------------------------------------------------------
(* Strings *)

Lower == {"a","b","c","d","e","f","g","h","i","j","k","l","m",
          "n","o","p","q","r","s","t","u","v","w","x","y","z"}
Upper == {"A","B","C","D","E","F","G","H","I","J","K","L","M",
          "N","O","P","Q","R","S","T","U","V","W","X","Y","Z"}
Digit == {"0","1","2","3","4","5","6","7","8","9"}

\* the character class [a-zA-Z0-9-_] of validPath
TitleClass == Lower \cup Upper \cup Digit \cup {"-", "_"}

\* faulty variant: the title is used as received, nothing is replaced
ReplaceNone(s, old, new) == s

\* strings.ReplaceAll(s, old, new) for one-character old and new
ReplaceAll(s, old, new) ==
    [i \in 1..Len(s) |-> IF s[i] = old THEN new ELSE s[i]]

IsPrefix(p, s) ==
    /\ Len(p) <= Len(s)
    /\ \A i \in 1..Len(p) : s[i] = p[i]

MaxOf(S) == CHOOSE m \in S : \A n \in S : n <= m

\* faulty variant: the name is cut at its first dot instead of its last
fileNameUpToFirstDot(fileName) ==
    LET dots == {i \in 1..Len(fileName) : fileName[i] = "."}
    IN  IF dots = {} THEN fileName
        ELSE SubSeq(fileName, 1, (CHOOSE m \in dots : \A n \in dots : m <= n) - 1)

\* filepath.Ext: the suffix beginning at the final dot, empty if there is none
Ext(name) ==
    LET dots == {i \in 1..Len(name) : name[i] = "."}
    IN  IF dots = {} THEN <<>> ELSE SubSeq(name, MaxOf(dots), Len(name))

fileNameWithoutExtSliceNotation(fileName) ==
    SubSeq(fileName, 1, Len(fileName) - Len(Ext(fileName)))

TxtExt == <<".", "t", "x", "t">>

\* p.Title + ".txt" (always resolved inside "pages/")
FileNameOf(title) == title \o TxtExt

-----------------------------------------------------------------------------
(* Routing *)

RootPath == <<"/">>
NewPath == <<"/", "new">>
ActionPath(action, title) == <<"/", action, "/">> \o title

\* validPath.FindStringSubmatch(path) for
\* ^/(edit|save|view)/([a-zA-Z0-9-_]+)$ : <<>> is nil, otherwise m[2] is the title
validPath(path) ==
    IF /\ Len(path) >= 4
       /\ path[1] = "/"
       /\ path[2] \in {"edit", "save", "view"}
       /\ path[3] = "/"
       /\ \A i \in 4..Len(path) : path[i] \in TitleClass
    THEN <<path, <<path[2]>>, SubSeq(path, 4, Len(path))>>
    ELSE <<>>

\* the patterns main registers; a pattern ending in "/" names a subtree
Patterns == { <<"/">>, <<"/", "view", "/">>, <<"/", "new">>,
              <<"/", "edit", "/">>, <<"/", "save", "/">> }

PatternMatches(pat, path) ==
    IF pat[Len(pat)] = "/" THEN IsPrefix(pat, path) ELSE pat = path

\* http.ServeMux: the longest registered pattern that matches wins
Mux(path) ==
    CHOOSE pat \in Patterns :
        /\ PatternMatches(pat, path)
        /\ \A q \in Patterns : PatternMatches(q, path) => Len(q) <= Len(pat)

-----------------------------------------------------------------------------
(* Pages and responses *)

Page(title, body) == [ok |-> TRUE, Title |-> title, Body |-> body]
NilPage == [ok |-> FALSE, Title |-> <<>>, Body |-> <<>>]

Response(status, location, tmpl, page, list, detail) ==
    [status |-> status, location |-> location, tmpl |-> tmpl,
     page |-> page, list |-> list, detail |-> detail]

NoResponse == Response(0, <<>>, "", NilPage, <<>>, "")
\* a handler that returns without writing: net/http sends 200 with no body
EmptyOK == Response(200, <<>>, "", NilPage, <<>>, "")
NotFound == Response(404, <<>>, "", NilPage, <<>>, "")
Redirect(location) == Response(302, location, "", NilPage, <<>>, "")
ServerError(detail) == Response(500, <<>>, "", NilPage, <<>>, detail)

\* renderTemplate(w, tmpl, p): the base layout executed with p
renderTemplate(tmpl, p) == Response(200, <<>>, tmpl, p, <<>>, "")

Request(method, path, title, body) ==
    [method |-> method, path |-> path, title |-> title, body |-> body]

NoRequest == Request("", <<>>, <<>>, <<>>)

-----------------------------------------------------------------------------
(* The file system under ./pages *)

\* what the permissions of ./pages allow: listing it needs r, adding a file
\* to it needs w; the files in it are the process's own (mode 0600)
CanList(d) == d \in {"ok", "readonly"}
CanCreate(d) == d = "ok"

\* os.ReadFile("pages/" + name)
ReadFile(fs, d, name) ==
    IF d # "missing" /\ name \in DOMAIN fs
    THEN [err |-> "", data |-> fs[name]]
    ELSE [err |-> "ENOENT", data |-> <<>>]

\* faulty variant: the file is opened without O_TRUNC, its content is kept
OpenFileNoTrunc(fs, d, name) ==
    IF d = "missing" THEN [err |-> "ENOENT", files |-> fs]
    ELSE IF name \notin DOMAIN fs /\ ~CanCreate(d)
    THEN [err |-> "EACCES", files |-> fs]
    ELSE [err |-> "",
          files |-> [n \in DOMAIN fs \cup {name} |->
                        IF n \in DOMAIN fs THEN fs[n] ELSE <<>>]]

\* os.OpenFile(name, O_WRONLY|O_CREATE|O_TRUNC, 0600), the first step of
\* os.WriteFile: an existing file is truncated, a missing one is created
OpenFile(fs, d, name) ==
    IF d = "missing" THEN [err |-> "ENOENT", files |-> fs]
    ELSE IF name \notin DOMAIN fs /\ ~CanCreate(d)
    THEN [err |-> "EACCES", files |-> fs]
    ELSE [err |-> "",
          files |-> [n \in DOMAIN fs \cup {name} |->
                        IF n = name THEN <<>> ELSE fs[n]]]

\* faulty variant: the file is opened with O_APPEND, data goes to its end
WriteAppend(fs, name, data) == [fs EXCEPT ![name] = @ \o data]

\* f.Write(data) on a descriptor at offset 0, the second step of os.WriteFile:
\* data replaces the first Len(data) bytes, whatever lies beyond them stays
Write(fs, name, data) ==
    [fs EXCEPT ![name] = data \o SubSeq(@, Len(data) + 1, Len(@))]

\* os.WriteFile run without interruption: open, write, close
WriteFile(fs, d, name, data) ==
    LET o == OpenFile(fs, d, name)
    IN  IF o.err # "" THEN o
        ELSE [err |-> "", files |-> Write(o.files, name, data)]

\* (p *Page) save()
save(fs, d, p) == WriteFile(fs, d, FileNameOf(p.Title), p.Body)

loadPage(fs, d, title) ==
    LET r == ReadFile(fs, d, FileNameOf(title))
    IN  IF r.err # "" THEN [err |-> r.err, page |-> NilPage]
        ELSE [err |-> "", page |-> Page(title, r.data)]

-----------------------------------------------------------------------------
(* Handlers.  Each yields the response, the directory entries it leaves, the *)
(* file-system calls it made, the handler function that ran, and the titles  *)
(* it saved without error.                                                   *)

Outcome(r, fs, ops, fn, wrote) ==
    [resp |-> r, files |-> fs, ops |-> ops, fn |-> fn, wrote |-> wrote]

\* faulty variant: a missing page is rendered empty instead of redirected
viewHandlerRenderingMissing(fs, d, r, title) ==
    LET l == loadPage(fs, d, title)
        p == IF l.err # "" THEN Page(title, <<>>) ELSE l.page
    IN  Outcome(renderTemplate("view", p), fs, {"ReadFile"}, "viewHandler", {})

viewHandler(fs, d, r, title) ==
    LET l == loadPage(fs, d, title)
    IN  IF l.err # ""
        THEN Outcome(Redirect(ActionPath("edit", title)), fs, {"ReadFile"},
                     "viewHandler", {})
        ELSE Outcome(renderTemplate("view", l.page), fs, {"ReadFile"},
                     "viewHandler", {})

\* faulty variant: the empty page shown for a missing title is also saved
editHandlerCreating(fs, d, r, title) ==
    LET l == loadPage(fs, d, title)
        p == IF l.err # "" THEN Page(title, <<>>) ELSE l.page
        s == IF l.err # "" THEN save(fs, d, p) ELSE [err |-> "", files |-> fs]
    IN  Outcome(renderTemplate("edit", p), s.files, {"ReadFile", "WriteFile"},
                "editHandler", {})

editHandler(fs, d, r, title) ==
    LET l == loadPage(fs, d, title)
        p == IF l.err # "" THEN Page(title, <<>>) ELSE l.page
    IN  Outcome(renderTemplate("edit", p), fs, {"ReadFile"}, "editHandler", {})

\* faulty variant: the error of save is dropped, the redirect is always sent
saveHandlerIgnoringError(fs, d, r, title) ==
    LET t == ReplaceAll(title, " ", "_")
        s == save(fs, d, Page(t, r.body))
    IN  Outcome(Redirect(ActionPath("view", t)), s.files, {"WriteFile"},
                "saveHandler", IF s.err = "" THEN {t} ELSE {})

saveHandler(fs, d, r, title) ==
    LET body == r.body
        t == ReplaceAll(title, " ", "_")
        s == save(fs, d, Page(t, body))
    IN  IF s.err # ""
        THEN Outcome(ServerError(s.err), s.files, {"WriteFile"}, "saveHandler", {})
        ELSE Outcome(Redirect(ActionPath("view", t)), s.files, {"WriteFile"},
                     "saveHandler", {t})

newHandler(fs, d, r) ==
    IF r.method = "GET"
    THEN Outcome(renderTemplate("new", NilPage), fs, {}, "newHandler", {})
    ELSE LET t == ReplaceAll(r.title, " ", "_")
             s == save(fs, d, Page(t, r.body))
         IN  IF s.err # ""
             THEN Outcome(ServerError(s.err), s.files, {"WriteFile"},
                          "newHandler", {})
             ELSE Outcome(Redirect(ActionPath("view", t)), s.files,
                          {"WriteFile"}, "newHandler", {t})

\* fn(w, r, title) for the handler function passed to makeHandler
Call(fn, fs, d, r, title) ==
    CASE fn = "viewHandler" -> viewHandler(fs, d, r, title)
      [] fn = "editHandler" -> editHandler(fs, d, r, title)
      [] fn = "saveHandler" -> saveHandler(fs, d, r, title)

makeHandler(fn, fs, d, r) ==
    LET m == validPath(r.path)
    IN  IF Len(m) = 0 THEN Outcome(NotFound, fs, {}, "", {})
        ELSE Call(fn, fs, d, r, m[3])

\* the orders in which f.Readdir(0) may return the entries S
Orderings(S) ==
    {o \in [1..Cardinality(S) -> S] : \A x \in S : \E i \in DOMAIN o : o[i] = x}

\* the order shows only in the list homeHandler renders for the path "/":
\* for any other path one order stands for all of them
Readdir(fs, path) ==
    IF path = RootPath THEN Orderings(DOMAIN fs)
    ELSE {CHOOSE o \in Orderings(DOMAIN fs) : TRUE}

homeHandler(fs, d, r, order) ==
    IF ~CanList(d) THEN Outcome(EmptyOK, fs, {"Open"}, "homeHandler", {})
    ELSE LET data == [i \in DOMAIN order |->
                        loadPage(fs, d,
                            fileNameWithoutExtSliceNotation(order[i])).page]
             ops == {"Open", "Readdir"} \cup
                    (IF Len(order) > 0 THEN {"ReadFile"} ELSE {})
         IN  IF r.path # RootPath
             THEN Outcome(NotFound, fs, ops, "homeHandler", {})
             ELSE Outcome(Response(200, <<>>, "home", NilPage, data, ""),
                          fs, ops, "homeHandler", {})

-----------------------------------------------------------------------------
(* Requests *)

Actions == {"view", "edit", "save", "delete"}

GetPaths ==
    {RootPath, NewPath, <<"/", "foo">>}
        \cup {ActionPath(a, t) : a \in Actions, t \in PathTitles}

SaveRequests ==
    {Request("POST", ActionPath("save", t), <<>>, b) : t \in PathTitles, b \in Bodies}

Requests ==
    {Request("GET", p, <<>>, <<>>) : p \in GetPaths}
        \cup SaveRequests
        \cup {Request("POST", NewPath, t, b) : t \in FormTitles, b \in Bodies}

\* the requests the mux hands to the handler registered under a pattern
RoutedTo(pat) == {r \in Requests : Mux(r.path) = pat}
HomeRequests == RoutedTo(<<"/">>)
ViewRequests == RoutedTo(<<"/", "view", "/">>)
EditRequests == RoutedTo(<<"/", "edit", "/">>)
SaveRouteRequests == RoutedTo(<<"/", "save", "/">>)
NewRequests == RoutedTo(<<"/", "new">>)

-----------------------------------------------------------------------------
(* Start-up *)

EmptyDir == [n \in {} |-> <<>>]

\* a directory that already holds the page "a" and a file that is no page
SeededDir ==
    [n \in {FileNameOf(<<"a">>), <<"b", ".", "m", "d">>} |->
        IF n = FileNameOf(<<"a">>) THEN <<"y", "y">> ELSE <<"x">>]

DirStates == {"ok", "missing", "readonly", "searchonly"}

\* a missing directory has no entries; the program adds entries only to a
\* directory it may create files in, so the others are taken as populated
InitialStores(d) ==
    CASE d = "ok" -> {EmptyDir, SeededDir}
      [] d = "missing" -> {EmptyDir}
      [] d = "readonly" -> {SeededDir}
      [] d = "searchonly" -> {SeededDir}

IdleProc == [pc |-> "idle", title |-> <<>>, body |-> <<>>, resp |-> NoResponse]

Init ==
    /\ dir \in DirStates
    /\ files \in InitialStores(dir)
    /\ initial = files
    /\ prev = files
    /\ req = NoRequest
    /\ resp = NoResponse
    /\ handler = ""
    /\ storeOps = {}
    /\ saved = {}
    /\ procs = [c \in Clients |-> IdleProc]
    /\ written = <<>>
    /\ completed = <<>>

-----------------------------------------------------------------------------
(* One request at a time: each action is a registered handler run to its end *)

Serve(r, out) ==
    /\ Cardinality(DOMAIN out.files) <= MaxFiles
    /\ req' = r
    /\ resp' = out.resp
    /\ handler' = out.fn
    /\ storeOps' = out.ops
    /\ prev' = files
    /\ files' = out.files
    /\ saved' = saved \cup out.wrote
    /\ UNCHANGED <<dir, initial, procs, written, completed>>

HomeRoute ==
    \E r \in HomeRequests :
        \E order \in Readdir(files, r.path) :
            Serve(r, homeHandler(files, dir, r, order))

ViewRoute ==
    \E r \in ViewRequests : Serve(r, makeHandler("viewHandler", files, dir, r))

EditRoute ==
    \E r \in EditRequests : Serve(r, makeHandler("editHandler", files, dir, r))

SaveRoute ==
    \E r \in SaveRouteRequests : Serve(r, makeHandler("saveHandler", files, dir, r))

NewRoute ==
    \E r \in NewRequests : Serve(r, newHandler(files, dir, r))

Next == HomeRoute \/ ViewRoute \/ EditRoute \/ SaveRoute \/ NewRoute

Spec == Init /\ [][Next]_vars

-----------------------------------------------------------------------------
(* Concurrent saves: each client sends one POST /save/<title>; its goroutine *)
(* runs makeHandler and saveHandler, and os.WriteFile step by step           *)

Finish(c, r) ==
    /\ procs' = [procs EXCEPT ![c].pc = "done", ![c].resp = r]
    /\ completed' = Append(completed, c)

ConcBegin(c) ==
    \E r \in SaveRequests :
        /\ procs[c].pc = "idle"
        /\ LET m == validPath(r.path)
           IN  IF Len(m) = 0
               THEN Finish(c, NotFound)
               ELSE /\ procs' = [procs EXCEPT ![c].pc = "open",
                                    ![c].title = ReplaceAll(m[3], " ", "_"),
                                    ![c].body = r.body]
                    /\ UNCHANGED completed
        /\ UNCHANGED <<dir, files, initial, written, seqVars>>

ConcOpen(c) ==
    /\ procs[c].pc = "open"
    /\ LET o == OpenFile(files, dir, FileNameOf(procs[c].title))
       IN  /\ Cardinality(DOMAIN o.files) <= MaxFiles
           /\ files' = o.files
           /\ IF o.err # ""
              THEN Finish(c, ServerError(o.err))
              ELSE /\ procs' = [procs EXCEPT ![c].pc = "write"]
                   /\ UNCHANGED completed
    /\ UNCHANGED <<dir, initial, written, seqVars>>

ConcWrite(c) ==
    /\ procs[c].pc = "write"
    /\ files' = Write(files, FileNameOf(procs[c].title), procs[c].body)
    /\ written' = Append(written, c)
    /\ procs' = [procs EXCEPT ![c].pc = "close"]
    /\ UNCHANGED <<dir, initial, completed, seqVars>>

ConcClose(c) ==
    /\ procs[c].pc = "close"
    /\ Finish(c, Redirect(ActionPath("view", procs[c].title)))
    /\ UNCHANGED <<dir, files, initial, written, seqVars>>

ConcNext ==
    \E c \in Clients : ConcBegin(c) \/ ConcOpen(c) \/ ConcWrite(c) \/ ConcClose(c)

ConcSpec == Init /\ [][ConcNext]_vars

-----------------------------------------------------------------------------
(* Vocabulary of the properties *)

\* the allow-list [A-Za-z0-9_-]+ : non-empty, letters, digits, hyphen, underscore
AllowListed(t) ==
    /\ t # <<>>
    /\ \A i \in 1..Len(t) :
          t[i] \in Lower \cup Upper \cup Digit \/ t[i] = "_" \/ t[i] = "-"

\* a title with every space turned into an underscore
Underscored(t) == [i \in 1..Len(t) |-> IF t[i] = " " THEN "_" ELSE t[i]]

Stored(fs, t) == FileNameOf(t) \in DOMAIN fs

\* the titles of the pages a rendered home list shows
ListedTitles(r) == {r.list[i].Title : i \in {j \in DOMAIN r.list : r.list[j].ok}}

\* every entry but the one of title t is as it was before the request
OthersUntouched(t) ==
    /\ DOMAIN files \ {FileNameOf(t)} = DOMAIN prev \ {FileNameOf(t)}
    /\ \A n \in DOMAIN files \ {FileNameOf(t)} : files[n] = prev[n]

\* the last request was  POST /save/<t>  with body b
IsSave(t, b) == req = Request("POST", ActionPath("save", t), <<>>, b)

\* persistence of a page titled t fails: no directory, or a new file in a
\* directory that takes none
CannotPersist(t) ==
    \/ dir = "missing"
    \/ dir \in {"readonly", "searchonly"} /\ ~Stored(prev, t)

-----------------------------------------------------------------------------
(* C1: after a successful save of (title, body) under an allow-listed title, *)
(* whatever the store held before, loading the title yields a page whose     *)
(* body is exactly the saved body.                                           *)
C1_SaveThenLoad ==
    \A t \in PathTitles, b \in Bodies :
        (IsSave(t, b) /\ AllowListed(t) /\ resp.status = 302)
            => loadPage(files, dir, t) = [err |-> "", page |-> Page(t, b)]

\* a save that replaced a longer, different body
C1_Witness ==
    /\ IsSave(<<"a">>, <<"x">>)
    /\ resp.status = 302
    /\ Stored(prev, <<"a">>)
    /\ prev[FileNameOf(<<"a">>)] = <<"y", "y">>

(* C2: a request for /edit/, /save/, /view/ or /delete/ whose title is not   *)
(* allow-listed is answered "not found", runs no action handler and neither  *)
(* reads nor writes the store.                                               *)
C2_InvalidTitleRejected ==
    \A a \in Actions, t \in PathTitles :
        (req.path = ActionPath(a, t) /\ ~AllowListed(t))
            => /\ resp = NotFound
               /\ handler \notin {"viewHandler", "editHandler", "saveHandler"}
               /\ storeOps = {}
               /\ files = prev

(* C3: GET /delete/<title> for a stored title removes the page and answers   *)
(* 302 to "/"; the title then loads as not found and its view redirects to   *)
(* its edit page.                                                            *)
C3_DeleteRemovesPage ==
    \A t \in PathTitles :
        (/\ req = Request("GET", ActionPath("delete", t), <<>>, <<>>)
         /\ AllowListed(t)
         /\ dir = "ok"
         /\ Stored(prev, t))
            => /\ resp = Redirect(RootPath)
               /\ ~Stored(files, t)
               /\ loadPage(files, dir, t).err # ""
               /\ viewHandler(files, dir, req, t).resp
                      = Redirect(ActionPath("edit", t))

(* C4: GET /view/<title> for an allow-listed title answers 302 to            *)
(* /edit/<title> and renders nothing when no page is stored, and renders the *)
(* view template with the stored page, without redirecting, when one is.     *)
C4_ViewRedirectsOrRenders ==
    \A t \in PathTitles :
        (req = Request("GET", ActionPath("view", t), <<>>, <<>>) /\ AllowListed(t))
            => IF Stored(prev, t)
               THEN /\ resp.status = 200
                    /\ resp.tmpl = "view"
                    /\ resp.page = Page(t, prev[FileNameOf(t)])
                    /\ resp.location = <<>>
               ELSE /\ resp.status = 302
                    /\ resp.location = ActionPath("edit", t)
                    /\ resp.tmpl = ""

\* both cases, on a store that holds one of the two titles
C4_Witness ==
    /\ req = Request("GET", ActionPath("view", <<"-">>), <<>>, <<>>)
    /\ resp.status = 302
    /\ Stored(prev, <<"a", "_">>)
    /\ viewHandler(files, dir, req, <<"a", "_">>).resp.tmpl = "view"

(* C5: from an empty store, the titles the home page lists are exactly the   *)
(* titles saved so far: each of them and no other.                           *)
C5_HomeListsSavedTitles ==
    (/\ DOMAIN initial = {}
     /\ req.path = RootPath
     /\ resp.tmpl = "home")
        => ListedTitles(resp) = saved

\* three titles saved, one of them over an earlier save of the same title
C5_Witness ==
    /\ DOMAIN initial = {}
    /\ req.path = RootPath
    /\ resp.tmpl = "home"
    /\ Cardinality(saved) = 3
    /\ Len(resp.list) = 3

(* C6: a request handed to the home handler with a path other than "/" is    *)
(* answered "not found", whatever the state of the pages directory.          *)
C6_HomeOtherPathNotFound ==
    (handler = "homeHandler" /\ req.path # RootPath) => resp = NotFound

(* C7 as stated: POST /new with title t and body b always stores b under t   *)
(* with its spaces turned into underscores and answers 302 to the view of    *)
(* that title.                                                               *)
C7_NewAlwaysStores ==
    \A t \in FormTitles, b \in Bodies :
        req = Request("POST", NewPath, t, b)
            => /\ resp = Redirect(ActionPath("view", Underscored(t)))
               /\ Stored(files, Underscored(t))
               /\ files[FileNameOf(Underscored(t))] = b

(* C7 amended: POST /new with any title t (no allow-list check) and body b,  *)
(* when the page can be persisted, stores b under t with its spaces turned   *)
(* into underscores, replacing what was there, touches no other page, and    *)
(* answers 302 to the view of that title; when it cannot, it answers 500     *)
(* with the failure detail and the store is unchanged. GET /new changes      *)
(* nothing in the store.                                                     *)
C7_NewStoresUnlessPersistenceFails ==
    /\ \A t \in FormTitles, b \in Bodies :
          req = Request("POST", NewPath, t, b)
              => IF CannotPersist(Underscored(t))
                 THEN /\ resp.status = 500
                      /\ resp.detail # ""
                      /\ resp.location = <<>>
                      /\ files = prev
                 ELSE /\ resp = Redirect(ActionPath("view", Underscored(t)))
                      /\ Stored(files, Underscored(t))
                      /\ files[FileNameOf(Underscored(t))] = b
                      /\ OthersUntouched(Underscored(t))
    /\ req = Request("GET", NewPath, <<>>, <<>>) => files = prev

\* a title with a space, not allow-listed, silently overwrote the page "a_"
C7_Witness ==
    /\ req = Request("POST", NewPath, <<"a", " ">>, <<"x">>)
    /\ resp.status = 302
    /\ Stored(prev, <<"a", "_">>)
    /\ prev[FileNameOf(<<"a", "_">>)] = <<"y", "y">>
    /\ files[FileNameOf(<<"a", "_">>)] = <<"x">>

(* C8: POST /save/<title> with an allow-listed title answers 302 to          *)
(* /view/<title> when the page is persisted; when it cannot be (directory    *)
(* missing, or unwritable and the file not there yet) it answers 500 with    *)
(* the failure detail, sends no redirect, and leaves the store as it was.    *)
C8_SaveRedirectsOrFails ==
    \A t \in PathTitles, b \in Bodies :
        (IsSave(t, b) /\ AllowListed(t))
            => IF CannotPersist(t)
               THEN /\ resp.status = 500
                    /\ resp.detail # ""
                    /\ resp.location = <<>>
                    /\ files = prev
               ELSE resp = Redirect(ActionPath("view", t))

\* a save refused by an unwritable directory
C8_Witness ==
    /\ IsSave(<<"-">>, <<"x">>)
    /\ dir = "readonly"
    /\ resp.status = 500
    /\ ~Stored(files, <<"-">>)

\* both clients saved the same title with different bodies, and both are done
BothSaved ==
    /\ \A c \in Clients : procs[c].pc = "done" /\ procs[c].resp.status = 302
    /\ procs[1].title = procs[2].title
    /\ procs[1].body # procs[2].body

StoredBody == files[FileNameOf(procs[1].title)]

(* C9 as stated: once two concurrent saves of one title with different       *)
(* bodies have both completed, the stored body is the body of the save that  *)
(* completed last.                                                           *)
C9_LastCompletedWins ==
    BothSaved => StoredBody = procs[completed[Len(completed)]].body

(* C9 amended: once two concurrent saves of one title with different bodies  *)
(* have both completed, the stored body begins with the whole body of the    *)
(* save whose file write came last (which need not be the save that          *)
(* completed last): it is that body, or, when the other body is longer, that *)
(* body followed by the rest of the other body.                              *)
C9_LastWriteWinsPrefix ==
    BothSaved =>
        LET w == written[Len(written)]
            o == CHOOSE c \in Clients : c # w
            bw == procs[w].body
            bo == procs[o].body
        IN  \/ StoredBody = bw
            \/ /\ Len(bo) > Len(bw)
               /\ StoredBody = bw \o SubSeq(bo, Len(bw) + 1, Len(bo))

\* both saves done and the stored body is neither of the two bodies
C9_Witness ==
    /\ BothSaved
    /\ \A c \in Clients : StoredBody # procs[c].body

(* C10: view, edit and home never change the store; GET /edit/<title> for an *)
(* allow-listed title with no page renders the edit template with that title *)
(* and an empty body and creates nothing: the title still loads as missing,  *)
(* its view still redirects to edit, and home does not list it.              *)
C10_ReadOnlyActions ==
    /\ req \in HomeRequests \cup ViewRequests \cup EditRequests => files = prev
    /\ \A t \in PathTitles :
          (/\ req = Request("GET", ActionPath("edit", t), <<>>, <<>>)
           /\ AllowListed(t)
           /\ ~Stored(prev, t))
              => /\ resp = renderTemplate("edit", Page(t, <<>>))
                 /\ ~Stored(files, t)
                 /\ viewHandler(files, dir, req, t).resp
                        = Redirect(ActionPath("edit", t))
                 /\ \A order \in Orderings(DOMAIN files) :
                        t \notin ListedTitles(
                            homeHandler(files, dir,
                                Request("GET", RootPath, <<>>, <<>>), order).resp)

\* an edit form shown for a missing title while other pages are stored
C10_Witness ==
    /\ req = Request("GET", ActionPath("edit", <<"a">>), <<>>, <<>>)
    /\ resp.tmpl = "edit"
    /\ resp.page = Page(<<"a">>, <<>>)
    /\ ~Stored(files, <<"a">>)
    /\ dir = "ok"
    /\ DOMAIN files # {}

====
